---- MODULE Spec2Model ----
(***************************************************************************)
(* asset-fetch: the download queue, the bubbletea session (model.Update)   *)
(* and the background transfer (downloadAsset), as a state machine.        *)
(*                                                                         *)
(* The bubbletea runtime is modelled by a bag of pending messages: every   *)
(* command returned by Update runs in its own goroutine and its message is *)
(* delivered to Update in any order relative to the other pending ones.    *)
(***************************************************************************)
EXTENDS Integers, Sequences, FiniteSets, Bags, TLC

VARIABLES
    state,            \* m.state
    loading,          \* m.loading
    quitting,         \* m.quitting
    errorMsg,         \* m.errorMsg
    listView,         \* m.listView: items, cursor, selected, multiSelect
    downloadQueue,    \* m.downloadQueue: assets, progress, currentIndex
    downloading,      \* m.downloading
    downloadFinished, \* m.downloadFinished
    downloadSuccess,  \* m.downloadSuccess
    downloadResult,   \* m.downloadResult
    downloadProgress, \* global byte counter shared with the transfer
    ctxCancelled,     \* downloadContext.Err() == context.Canceled
    transfers,        \* running downloadAsset goroutines
    msgs,             \* messages on their way to Update (a bag)
    quitPending,      \* a tea.Quit command has been returned
    running,          \* the bubbletea event loop has not returned yet
    files,            \* the working directory: file name -> contents
    gen,              \* history: number of queue loads so far
    nCancel,          \* history: number of cancel requests so far
    ended,            \* history: terminal outcomes of the transfers
    nextCalls,        \* history: NextDownload calls since the queue was last reset
    tag,              \* m.tag
    startWithReleases \* m.startWithReleases

vars == <<state, loading, quitting, errorMsg, listView, downloadQueue,
          downloading, downloadFinished, downloadSuccess, downloadResult,
          downloadProgress, ctxCancelled, transfers, msgs, quitPending,
          running, files, gen, nCancel, ended, nextCalls, tag,
          startWithReleases>>

sessionVars == <<state, loading, quitting, errorMsg, listView,
                 downloading, downloadFinished, downloadSuccess,
                 downloadResult>>

----------------------------------------------------------------------------
(* Bounds *)

MaxAssets  == 2   \* number of assets of the listed release
MaxLoads   == 1   \* queue loads ('enter') in one run of Spec
MaxReloads == 2   \* queue loads ('enter') in one run of SpecReload
MaxCancels == 1   \* cancel requests ('q' while downloading) in one run
MaxQueueLen == 2  \* length of the queue in SpecQueue
MaxBytes   == 1   \* largest byte count passed to the queue in SpecQueue
MaxMaskLen == 3   \* length of the asset mask in SpecMask
MaxNameLen == 2   \* length of an asset name in SpecMask

----------------------------------------------------------------------------
(* Inputs: the listed release and what the server sends for each asset *)

NoDigest == <<>>

Byte == {1, 2}

HexChar(b) == IF b = 0 THEN "0" ELSE IF b = 1 THEN "a" ELSE "b"

AllAssets ==
    << [Name |-> <<"a", "1">>, Size |-> 2,
        Digest |-> <<"s", "h", "a", "2", "5", "6", ":", "0", "a", "a">>],
       [Name |-> <<"a", "2">>, Size |-> 1, Digest |-> NoDigest],
       [Name |-> <<"b", "3">>, Size |-> 0, Digest |-> NoDigest],
       [Name |-> <<"b", "4">>, Size |-> 1, Digest |-> NoDigest] >>

Catalog == SubSeq(AllAssets, 1, MaxAssets)

NoAsset == [Name |-> <<>>, Size |-> 0, Digest |-> NoDigest]

\* a second large asset, listed after the first one in LargeRelease
LargeAsset == [Name |-> <<"a", "5">>, Size |-> 2, Digest |-> NoDigest]

LargeRelease == [TagName |-> "v2", Assets |-> <<AllAssets[1], LargeAsset>>]

Names == {AllAssets[i].Name : i \in 1..Len(AllAssets)} \cup {LargeAsset.Name}

\* the bodies the server may send for an asset
Bodies(a) ==
    CASE a.Name = <<"a", "1">> -> {<<1, 1>>, <<1, 2>>}
      [] a.Name = <<"a", "5">> -> {<<1, 1>>}
      [] OTHER                 -> {<<1>>}

----------------------------------------------------------------------------
(* DownloadQueue *)

EmptyProgress == [downloadedBytes |-> 0, totalBytes |-> 0, completed |-> FALSE]

EmptyQueue == [assets |-> <<>>, progress |-> <<>>, currentIndex |-> 0]

Add(dq, asset) ==
    [dq EXCEPT !.assets = Append(@, asset),
               !.progress = Append(@, EmptyProgress)]

RECURSIVE AddMultiple(_, _)
AddMultiple(dq, assets) ==
    IF assets = <<>> THEN dq
    ELSE AddMultiple(Add(dq, Head(assets)), Tail(assets))

InRange(i, s) == i >= 0 /\ i < Len(s)

HasCurrent(dq) == InRange(dq.currentIndex, dq.assets)

GetCurrent(dq) ==
    IF HasCurrent(dq) THEN dq.assets[dq.currentIndex + 1] ELSE NoAsset

\* an update that always writes the first entry
UpdateProgress_First(dq, downloaded, total) ==
    IF InRange(dq.currentIndex, dq.progress)
    THEN [dq EXCEPT !.progress[1] =
            [downloadedBytes |-> downloaded,
             totalBytes      |-> total,
             completed       |-> downloaded >= total /\ total > 0]]
    ELSE dq

UpdateProgress(dq, downloaded, total) ==
    IF InRange(dq.currentIndex, dq.progress)
    THEN [dq EXCEPT !.progress[dq.currentIndex + 1] =
            [downloadedBytes |-> downloaded,
             totalBytes      |-> total,
             completed       |-> downloaded >= total /\ total > 0]]
    ELSE dq

\* a final size that skips the asset's declared size
FinalSize_NoDeclared(dq, actualSize) ==
    IF actualSize # 0 THEN actualSize
    ELSE dq.progress[dq.currentIndex + 1].downloadedBytes

FinalSize(dq, actualSize) ==
    IF actualSize # 0 THEN actualSize
    ELSE IF dq.assets[dq.currentIndex + 1].Size # 0
         THEN dq.assets[dq.currentIndex + 1].Size
         ELSE dq.progress[dq.currentIndex + 1].downloadedBytes

\* a completion that always marks the first entry
CompleteCurrentDownload_First(dq, actualSize) ==
    IF InRange(dq.currentIndex, dq.progress)
    THEN [dq EXCEPT !.progress[1] =
            [downloadedBytes |-> actualSize,
             totalBytes      |-> actualSize,
             completed       |-> TRUE]]
    ELSE dq

CompleteCurrentDownload(dq, actualSize) ==
    IF InRange(dq.currentIndex, dq.progress)
    THEN [dq EXCEPT !.progress[dq.currentIndex + 1] =
            [downloadedBytes |-> FinalSize(dq, actualSize),
             totalBytes      |-> FinalSize(dq, actualSize),
             completed       |-> TRUE]]
    ELSE dq

\* an advance that wraps to the first entry at the end of the queue
NextDownload_Wrap(dq) ==
    [dq EXCEPT !.currentIndex = IF @ + 1 >= Len(dq.assets) THEN 0 ELSE @ + 1]

\* the queue after NextDownload; its result is NextDownloadResult of that queue
NextDownload(dq) == [dq EXCEPT !.currentIndex = @ + 1]

NextDownloadResult(dq) == dq.currentIndex < Len(dq.assets)

IsEmpty(dq) == Len(dq.assets) = 0

\* a partial reset: the progress list is kept
Reset_KeepProgress(dq) == [dq EXCEPT !.assets = <<>>, !.currentIndex = 0]

Reset(dq) == [dq EXCEPT !.assets = <<>>, !.progress = <<>>, !.currentIndex = 0]

----------------------------------------------------------------------------
(* UnifiedListView and NavigationHandler *)

EmptyListView == [items |-> <<>>, cursor |-> 0, selected |-> <<>>,
                  multiSelect |-> FALSE, kind |-> "none"]

SetReleases(ulv, releases) ==
    [items |-> releases, cursor |-> 0, selected |-> <<>>,
     multiSelect |-> FALSE, kind |-> "releases"]

SetAssets(ulv, assets) ==
    [items |-> assets, cursor |-> 0,
     selected |-> [i \in 1..Len(assets) |-> FALSE],
     multiSelect |-> TRUE, kind |-> "assets"]

NavKeys == {"up", "k", "down", "j"}

HandleKey(ulv, key) ==
    IF key \in {"up", "k"}
    THEN IF ulv.cursor > 0 THEN [ulv EXCEPT !.cursor = @ - 1] ELSE ulv
    ELSE IF key \in {"down", "j"}
    THEN IF ulv.cursor < Len(ulv.items) - 1
         THEN [ulv EXCEPT !.cursor = @ + 1] ELSE ulv
    ELSE ulv

\* a toggle that only ever selects
ToggleSelection_Set(ulv) ==
    IF ulv.multiSelect /\ ulv.cursor < Len(ulv.selected)
    THEN [ulv EXCEPT !.selected[ulv.cursor + 1] = TRUE]
    ELSE ulv

ToggleSelection(ulv) ==
    IF ulv.multiSelect /\ ulv.cursor < Len(ulv.selected)
    THEN [ulv EXCEPT !.selected[ulv.cursor + 1] = ~@]
    ELSE ulv

RECURSIVE SelectFrom(_, _, _)
SelectFrom(items, selected, i) ==
    IF i > Len(selected) THEN <<>>
    ELSE IF selected[i] /\ i <= Len(items)
         THEN <<items[i]>> \o SelectFrom(items, selected, i + 1)
         ELSE SelectFrom(items, selected, i + 1)

GetSelectedAssets(ulv) ==
    IF ~ulv.multiSelect \/ ulv.kind # "assets" THEN <<>>
    ELSE SelectFrom(ulv.items, ulv.selected, 1)

\* the highlighted asset as a list of at most one element
GetCurrentAsset(ulv) ==
    IF ulv.cursor < Len(ulv.items) /\ ulv.kind = "assets"
    THEN <<ulv.items[ulv.cursor + 1]>> ELSE <<>>

\* the highlighted release as a list of at most one element
GetCurrentRelease(ulv) ==
    IF ulv.cursor < Len(ulv.items) /\ ulv.kind = "releases"
    THEN <<ulv.items[ulv.cursor + 1]>> ELSE <<>>

----------------------------------------------------------------------------
(* Strings as sequences of characters: strings.Split, HasPrefix, HasSuffix *)

RECURSIVE Split(_, _)
Split(s, sep) ==
    IF \A i \in 1..Len(s) : s[i] # sep THEN <<s>>
    ELSE LET k == CHOOSE i \in 1..Len(s) :
                    s[i] = sep /\ \A j \in 1..(i - 1) : s[j] # sep
         IN  <<SubSeq(s, 1, k - 1)>> \o Split(SubSeq(s, k + 1, Len(s)), sep)

HasPrefix(s, prefix) ==
    Len(prefix) <= Len(s) /\ SubSeq(s, 1, Len(prefix)) = prefix

HasSuffix(s, suffix) ==
    Len(suffix) <= Len(s) /\ SubSeq(s, Len(s) - Len(suffix) + 1, Len(s)) = suffix

\* a prefix that always stops at the first '*'
MaskPrefix_FirstPart(assetMask) == Split(assetMask, "*")[1]

\* a mask without suffix condition
MaskSuffix_None(assetMask) == <<>>

MaskPrefix(assetMask) ==
    IF Len(Split(assetMask, "*")) = 2 THEN Split(assetMask, "*")[1] ELSE assetMask

MaskSuffix(assetMask) ==
    IF Len(Split(assetMask, "*")) = 2 THEN Split(assetMask, "*")[2] ELSE <<>>

\* a rule that lets nothing through for the empty mask
MaskMatches_NonEmpty(assetMask, name) ==
    /\ assetMask # <<>>
    /\ HasPrefix(name, MaskPrefix(assetMask))
    /\ HasSuffix(name, MaskSuffix(assetMask))

MaskMatches(assetMask, name) ==
    HasPrefix(name, MaskPrefix(assetMask)) /\ HasSuffix(name, MaskSuffix(assetMask))

RECURSIVE FilterAssets(_, _)
FilterAssets(assets, assetMask) ==
    IF assets = <<>> THEN <<>>
    ELSE IF MaskMatches(assetMask, Head(assets).Name)
         THEN <<Head(assets)>> \o FilterAssets(Tail(assets), assetMask)
         ELSE FilterAssets(Tail(assets), assetMask)

----------------------------------------------------------------------------
(* The working directory and the checksum *)

NoFile == [exists |-> FALSE, data |-> <<>>]

RemoveFile(fs, name) == [fs EXCEPT ![name] = NoFile]

CreateFile(fs, name) == [fs EXCEPT ![name] = [exists |-> TRUE, data |-> <<>>]]

\* a write of one byte at offset off (0-based); a hole reads as 0
WriteAt(data, off, b) ==
    [i \in 1..(IF Len(data) > off + 1 THEN Len(data) ELSE off + 1) |->
        IF i = off + 1 THEN b
        ELSE IF i <= Len(data) THEN data[i] ELSE 0]

StatSize(fs, name) ==
    IF name \in DOMAIN fs /\ fs[name].exists THEN Len(fs[name].data) ELSE 0

\* hex.EncodeToString(sha256(data)), as an injective encoding of the data
calculateSHA256(data) == <<"0">> \o [i \in 1..Len(data) |-> HexChar(data[i])]

Sha256Name == <<"s", "h", "a", "2", "5", "6">>

\* a verification that accepts every well-formed digest without comparing
verifyChecksum_NoCompare(fs, filename, expectedDigest) ==
    IF expectedDigest = <<>> THEN "ok"
    ELSE IF Len(Split(expectedDigest, ":")) # 2
            \/ Split(expectedDigest, ":")[1] # Sha256Name
    THEN "invalid digest format"
    ELSE "ok"

\* a verification that rejects an absent digest
verifyChecksum_EmptyInvalid(fs, filename, expectedDigest) ==
    IF Len(Split(expectedDigest, ":")) # 2
       \/ Split(expectedDigest, ":")[1] # Sha256Name
    THEN "invalid digest format"
    ELSE IF ~fs[filename].exists THEN "error calculating checksum"
    ELSE IF calculateSHA256(fs[filename].data) # Split(expectedDigest, ":")[2]
    THEN "checksum verification failed"
    ELSE "ok"

verifyChecksum(fs, filename, expectedDigest) ==
    IF expectedDigest = <<>> THEN "ok"
    ELSE IF Len(Split(expectedDigest, ":")) # 2
            \/ Split(expectedDigest, ":")[1] # Sha256Name
    THEN "invalid digest format"
    ELSE IF ~fs[filename].exists THEN "error calculating checksum"
    ELSE IF calculateSHA256(fs[filename].data) # Split(expectedDigest, ":")[2]
    THEN "checksum verification failed"
    ELSE "ok"

\* the digests the error of verifyChecksum names
verifyChecksumDetail(fs, filename, expectedDigest) ==
    IF verifyChecksum(fs, filename, expectedDigest) = "invalid digest format"
    THEN <<expectedDigest>>
    ELSE IF verifyChecksum(fs, filename, expectedDigest) = "checksum verification failed"
    THEN <<Split(expectedDigest, ":")[2], calculateSHA256(fs[filename].data)>>
    ELSE <<>>

----------------------------------------------------------------------------
(* Messages and commands *)

Msg(type, asset, live, kind, g, i) ==
    [type |-> type, asset |-> asset, live |-> live, kind |-> kind,
     gen |-> g, idx |-> i, assets |-> <<>>, releases |-> <<>>,
     success |-> FALSE, detail |-> <<>>, mask |-> <<>>]

Send(bag, m) == bag (+) SetToBag({m})

Recv(bag, m) == bag (-) SetToBag({m})

Pending == BagToSet(msgs)

PendingOf(type) == {m \in Pending : m.type = type}

NewTransfer(asset, g, i) ==
    [gen |-> g, idx |-> i, asset |-> asset, pc |-> "request",
     body |-> <<>>, downloaded |-> 0, orphan |-> FALSE]

\* the first command of tea.Batch(startDownloadProgressMsg{asset}, downloadAsset(asset))
StartDownload(bag, asset, g, i) ==
    Send(bag, Msg("startDownloadProgressMsg", asset, FALSE, "", g, i))

\* tea.Tick(time.Second, ...): live is what the closure will find when it runs
Tick(bag, asset, live) == Send(bag, Msg("tick", asset, live, "", 0, 0))

FetchCmd == Msg("fetchReleases", NoAsset, FALSE, "", 0, 0)

CancelMsg == Msg("cancelDownloadMsg", NoAsset, FALSE, "", 0, 0)

Release1 == [TagName |-> "v1", Assets |-> Catalog]

Releases == <<Release1>>

Masks == {<<>>, <<"a", "*">>, <<"z", "*">>}

----------------------------------------------------------------------------
(* main and model.Init *)

Init ==
    /\ state = "StateReleases"
    /\ loading = TRUE
    /\ quitting = FALSE
    /\ errorMsg = ""
    /\ listView = EmptyListView
    /\ downloadQueue = EmptyQueue
    /\ downloading = FALSE
    /\ downloadFinished = FALSE
    /\ downloadSuccess = FALSE
    /\ downloadResult = ""
    /\ downloadProgress = 0
    /\ ctxCancelled = FALSE
    /\ transfers = {}
    /\ msgs = SetToBag({FetchCmd})
    /\ quitPending = FALSE
    /\ running = TRUE
    /\ files = [n \in Names |-> NoFile]
    /\ gen = 0
    /\ nCancel = 0
    /\ ended = {}
    /\ nextCalls = 0
    /\ tag = ""
    /\ startWithReleases = FALSE

----------------------------------------------------------------------------
(* fetchReleases: the listing command started by model.Init *)

RECURSIVE AllReleaseAssets(_)
AllReleaseAssets(releases) ==
    IF releases = <<>> THEN <<>>
    ELSE Head(releases).Assets \o AllReleaseAssets(Tail(releases))

FetchResult(assetMaskValue, failed) ==
    IF failed THEN [FetchCmd EXCEPT !.type = "errorMsg", !.kind = "listing failed"]
    ELSE IF tag # ""
    THEN [FetchCmd EXCEPT !.type = "releasesMsg", !.assets = Release1.Assets,
                          !.releases = <<Release1>>]
    ELSE IF assetMaskValue = <<>> \/ startWithReleases
    THEN [FetchCmd EXCEPT !.type = "releasesMsg", !.releases = Releases]
    ELSE IF Len(FilterAssets(AllReleaseAssets(Releases), assetMaskValue)) = 0
    THEN [FetchCmd EXCEPT !.type = "errorMsg", !.kind = "artifacts not found"]
    ELSE [FetchCmd EXCEPT !.type = "releasesMsg",
                          !.assets = FilterAssets(AllReleaseAssets(Releases), assetMaskValue),
                          !.releases = Releases]

fetchReleases(assetMaskValue, failed) ==
    /\ running
    /\ FetchCmd \in Pending
    /\ msgs' = Send(Recv(msgs, FetchCmd), FetchResult(assetMaskValue, failed))
    /\ UNCHANGED <<sessionVars, downloadQueue, downloadProgress, ctxCancelled,
                   transfers, quitPending, running, files, gen, nCancel, ended,
                   tag, startWithReleases, nextCalls>>

----------------------------------------------------------------------------
(* model.Update *)

Keys == {"ctrl+c", "q", "up", "k", "down", "j", " ", "enter"}

QuitKeys == {"ctrl+c", "q"}

\* tea.KeyMsg "ctrl+c"/"q" while m.downloading: cancel the download
KeyCancel ==
    /\ running
    /\ downloading
    /\ nCancel < MaxCancels
    /\ ctxCancelled' = TRUE
    /\ msgs' = Send(msgs, CancelMsg)
    /\ nCancel' = nCancel + 1
    /\ UNCHANGED <<sessionVars, downloadQueue, downloadProgress, transfers,
                   quitPending, running, files, gen, ended, tag, startWithReleases, nextCalls>>

\* tea.KeyMsg "ctrl+c"/"q" otherwise: quit
KeyQuit ==
    /\ running
    /\ ~downloading
    /\ quitting' = TRUE
    /\ quitPending' = TRUE
    /\ UNCHANGED <<state, loading, errorMsg, listView, downloadQueue, downloading,
                   downloadFinished, downloadSuccess, downloadResult,
                   downloadProgress, ctxCancelled, transfers, msgs, running,
                   files, gen, nCancel, ended, tag, startWithReleases, nextCalls>>

handleReleasesInput(key) ==
    /\ running
    /\ key \notin QuitKeys
    /\ state = "StateReleases"
    /\ IF key \in NavKeys
       THEN /\ listView' = HandleKey(listView, key)
            /\ state' = state
       ELSE IF key \in {"enter", " "} /\ GetCurrentRelease(listView) # <<>>
       THEN /\ listView' = SetAssets(listView, GetCurrentRelease(listView)[1].Assets)
            /\ state' = "StateAssets"
       ELSE UNCHANGED <<listView, state>>
    /\ UNCHANGED <<loading, quitting, errorMsg, downloadQueue, downloading,
                   downloadFinished, downloadSuccess, downloadResult,
                   downloadProgress, ctxCancelled, transfers, msgs, quitPending,
                   running, files, gen, nCancel, ended, tag, startWithReleases, nextCalls>>

\* a confirm that queues the highlighted asset even when others are toggled
SelectedAssets_CurrentOnly(ulv) == GetCurrentAsset(ulv)

\* the assets 'enter' puts in the queue
SelectedAssets(ulv) ==
    IF Len(GetSelectedAssets(ulv)) = 0 THEN GetCurrentAsset(ulv)
    ELSE GetSelectedAssets(ulv)

\* navigation and toggle-selection in the asset list
handleAssetsInput(key) ==
    /\ running
    /\ key \notin QuitKeys
    /\ key # "enter"
    /\ state = "StateAssets"
    /\ listView' = IF key \in NavKeys THEN HandleKey(listView, key)
                   ELSE IF key = " " THEN ToggleSelection(listView)
                   ELSE listView
    /\ UNCHANGED <<state, loading, quitting, errorMsg, downloadQueue, downloading,
                   downloadFinished, downloadSuccess, downloadResult,
                   downloadProgress, ctxCancelled, transfers, msgs, quitPending,
                   running, files, gen, nCancel, ended, tag, startWithReleases, nextCalls>>

LoadQueue(dq, assets) == AddMultiple(Reset(dq), assets)

\* 'enter' in the asset list
handleAssetsEnter(maxLoads) ==
    /\ running
    /\ state = "StateAssets"
    /\ IF Len(SelectedAssets(listView)) > 0
       THEN /\ gen < maxLoads
            /\ downloadQueue' = LoadQueue(downloadQueue, SelectedAssets(listView))
            /\ gen' = gen + 1
            /\ nextCalls' = 0
            /\ msgs' = StartDownload(msgs, GetCurrent(downloadQueue'), gen', 0)
            /\ transfers' = transfers \cup
                            {NewTransfer(GetCurrent(downloadQueue'), gen', 0)}
       ELSE UNCHANGED <<downloadQueue, gen, nextCalls, msgs, transfers>>
    /\ UNCHANGED <<sessionVars, downloadProgress, ctxCancelled, quitPending,
                   running, files, nCancel, ended, tag, startWithReleases>>

\* a key other than q / ctrl+c in StateDownloading or StateFinished
KeyIgnored ==
    /\ running
    /\ state \in {"StateDownloading", "StateFinished"}
    /\ UNCHANGED vars

\* a listing result handled without looking at the requested tag
UpdateReleasesMsg_NoTag(m) ==
    /\ running
    /\ m \in PendingOf("releasesMsg")
    /\ msgs' = Recv(msgs, m)
    /\ IF Len(m.assets) > 0 /\ ~startWithReleases
       THEN /\ listView' = SetAssets(listView, m.assets)
            /\ state' = "StateAssets"
       ELSE /\ listView' = SetReleases(listView, m.releases)
            /\ state' = "StateReleases"
    /\ loading' = FALSE
    /\ UNCHANGED <<quitting, errorMsg, downloadQueue, downloading,
                   downloadFinished, downloadSuccess, downloadResult,
                   downloadProgress, ctxCancelled, transfers, quitPending,
                   running, files, gen, nCancel, ended, tag, startWithReleases, nextCalls>>

UpdateReleasesMsg(m) ==
    /\ running
    /\ m \in PendingOf("releasesMsg")
    /\ msgs' = Recv(msgs, m)
    /\ IF tag # "" \/ (Len(m.assets) > 0 /\ ~startWithReleases)
       THEN /\ listView' = SetAssets(listView, m.assets)
            /\ state' = "StateAssets"
       ELSE /\ listView' = SetReleases(listView, m.releases)
            /\ state' = "StateReleases"
    /\ loading' = FALSE
    /\ UNCHANGED <<quitting, errorMsg, downloadQueue, downloading,
                   downloadFinished, downloadSuccess, downloadResult,
                   downloadProgress, ctxCancelled, transfers, quitPending,
                   running, files, gen, nCancel, ended, tag, startWithReleases, nextCalls>>

UpdateErrorMsg(m) ==
    /\ running
    /\ m \in PendingOf("errorMsg")
    /\ msgs' = Recv(msgs, m)
    /\ errorMsg' = m.kind
    /\ loading' = FALSE
    /\ UNCHANGED <<state, quitting, listView, downloadQueue, downloading,
                   downloadFinished, downloadSuccess, downloadResult,
                   downloadProgress, ctxCancelled, transfers, quitPending,
                   running, files, gen, nCancel, ended, tag, startWithReleases, nextCalls>>

UpdateStartDownloadProgressMsg(m) ==
    /\ running
    /\ m \in PendingOf("startDownloadProgressMsg")
    /\ downloading' = TRUE
    /\ state' = "StateDownloading"
    /\ msgs' = Tick(Recv(msgs, m), m.asset, ~IsEmpty(downloadQueue))
    /\ UNCHANGED <<loading, quitting, errorMsg, listView, downloadQueue,
                   downloadFinished, downloadSuccess, downloadResult,
                   downloadProgress, ctxCancelled, transfers, quitPending,
                   running, files, gen, nCancel, ended, tag, startWithReleases, nextCalls>>

\* a tick fires: updateDownloadProgressMsg if the closure found its flag set, else nil
UpdateDownloadProgressMsg(m) ==
    /\ running
    /\ m \in PendingOf("tick")
    /\ IF m.live
       THEN /\ downloadQueue' = UpdateProgress(downloadQueue, downloadProgress,
                                               m.asset.Size)
            /\ msgs' = Tick(Recv(msgs, m), m.asset, downloading)
       ELSE /\ msgs' = Recv(msgs, m)
            /\ UNCHANGED downloadQueue
    /\ UNCHANGED <<sessionVars, downloadProgress, ctxCancelled, transfers,
                   quitPending, running, files, gen, nCancel, ended, tag,
                   startWithReleases, nextCalls>>

\* an advance that starts no transfer
StartNext_Stall(m) ==
    /\ msgs' = Recv(msgs, m)
    /\ UNCHANGED <<transfers, downloadFinished, downloadSuccess, downloadResult, state,
                   quitPending>>

\* NextDownload returned true: start the transfer of the new current asset
StartNext(m) ==
    /\ msgs' = StartDownload(Recv(msgs, m), GetCurrent(downloadQueue'), gen,
                             downloadQueue'.currentIndex)
    /\ transfers' = transfers \cup
                    {NewTransfer(GetCurrent(downloadQueue'), gen,
                                 downloadQueue'.currentIndex)}
    /\ UNCHANGED <<downloadFinished, downloadSuccess, downloadResult, state,
                   quitPending>>

Finish(m, success, result) ==
    /\ msgs' = Recv(msgs, m)
    /\ downloadFinished' = TRUE
    /\ downloadSuccess' = success
    /\ downloadResult' = result
    /\ state' = "StateFinished"
    /\ quitPending' = TRUE
    /\ UNCHANGED transfers

\* a failure that aborts the queue instead of advancing it
UpdateDownloadErrorMsg_Abort(m) ==
    /\ running
    /\ m \in PendingOf("downloadErrorMsg")
    /\ downloading' = FALSE
    /\ Finish(m, FALSE, "Downloads completed with errors")
    /\ UNCHANGED <<loading, quitting, errorMsg, listView, downloadProgress,
                   ctxCancelled, running, files, gen, nCancel, ended, tag,
                   startWithReleases, downloadQueue, nextCalls>>

\* a failure that starts the failed asset's transfer again
UpdateDownloadErrorMsg_Retry(m) ==
    /\ running
    /\ m \in PendingOf("downloadErrorMsg")
    /\ downloading' = FALSE
    /\ downloadQueue' = downloadQueue
    /\ nextCalls' = nextCalls
    /\ StartNext(m)
    /\ UNCHANGED <<loading, quitting, errorMsg, listView, downloadProgress,
                   ctxCancelled, running, files, gen, nCancel, ended, tag,
                   startWithReleases>>

UpdateDownloadErrorMsg(m) ==
    /\ running
    /\ m \in PendingOf("downloadErrorMsg")
    /\ downloading' = FALSE
    /\ downloadQueue' = NextDownload(downloadQueue)
    /\ nextCalls' = nextCalls + 1
    /\ IF NextDownloadResult(downloadQueue')
       THEN StartNext(m)
       ELSE Finish(m, FALSE, "Downloads completed with errors")
    /\ UNCHANGED <<loading, quitting, errorMsg, listView, downloadProgress,
                   ctxCancelled, running, files, gen, nCancel, ended, tag,
                   startWithReleases>>

UpdateCancelDownloadMsg(m) ==
    /\ running
    /\ m \in PendingOf("cancelDownloadMsg")
    /\ msgs' = Recv(msgs, m)
    /\ downloading' = FALSE
    /\ errorMsg' = "Download cancelled by user"
    /\ state' = "StateAssets"
    /\ UNCHANGED <<loading, quitting, listView, downloadQueue, downloadFinished,
                   downloadSuccess, downloadResult, downloadProgress,
                   ctxCancelled, transfers, quitPending, running, files, gen,
                   nCancel, ended, tag, startWithReleases, nextCalls>>

UpdateChecksumVerifiedMsg(m) ==
    /\ running
    /\ m \in PendingOf("checksumVerifiedMsg")
    /\ downloading' = FALSE
    /\ IF m.success
       THEN /\ downloadQueue' =
                 NextDownload(CompleteCurrentDownload(downloadQueue,
                                                      StatSize(files, m.asset.Name)))
            /\ nextCalls' = nextCalls + 1
            /\ IF NextDownloadResult(downloadQueue')
               THEN StartNext(m)
               ELSE Finish(m, TRUE, "All files downloaded and verified successfully")
       ELSE /\ downloadQueue' =
                 CompleteCurrentDownload(downloadQueue, StatSize(files, m.asset.Name))
            /\ nextCalls' = nextCalls
            /\ Finish(m, FALSE, "Checksum verification failed")
    /\ UNCHANGED <<loading, quitting, errorMsg, listView, downloadProgress,
                   ctxCancelled, running, files, gen, nCancel, ended, tag,
                   startWithReleases>>

\* the event loop receives the QuitMsg and p.Run returns
Quit ==
    /\ running
    /\ quitPending
    /\ running' = FALSE
    /\ UNCHANGED <<sessionVars, downloadQueue, downloadProgress, ctxCancelled,
                   transfers, msgs, quitPending, files, gen, nCancel, ended,
                   tag, startWithReleases, nextCalls>>

----------------------------------------------------------------------------
(* downloadAsset: the background transfer of one asset *)

Others(t) == transfers \ {t}

ErrorMsgOf(t, kind) == Msg("downloadErrorMsg", t.asset, FALSE, kind, t.gen, t.idx)

VerifiedMsgOf(t) ==
    [Msg("checksumVerifiedMsg", t.asset, FALSE, "", t.gen, t.idx)
        EXCEPT !.success = TRUE]

Outcome(t, res) == [gen |-> t.gen, idx |-> t.idx, res |-> res]

ResultOf(kind) == IF kind = "Download cancelled by user" THEN "cancelled" ELSE "failed"

\* os.Remove(asset.Name): the other transfers writing that file keep an unlinked inode
Orphaned(ts, name) ==
    {IF u.pc = "copy" /\ u.asset.Name = name THEN [u EXCEPT !.orphan = TRUE] ELSE u :
        u \in ts}

\* an early failure that returns no message
FailEarly_Silent(t, kind) ==
    /\ transfers' = Others(t)
    /\ msgs' = msgs
    /\ ended' = ended \cup {Outcome(t, ResultOf(kind))}
    /\ UNCHANGED files

\* return downloadErrorMsg(kind) before the output file was created
FailEarly(t, kind) ==
    /\ transfers' = Others(t)
    /\ msgs' = Send(msgs, ErrorMsgOf(t, kind))
    /\ ended' = ended \cup {Outcome(t, ResultOf(kind))}
    /\ UNCHANGED files

\* remove the output file and return downloadErrorMsg(kind)
FailAndRemove(t, kind) ==
    /\ transfers' = Orphaned(Others(t), t.asset.Name)
    /\ msgs' = Send(msgs, ErrorMsgOf(t, kind))
    /\ ended' = ended \cup {Outcome(t, ResultOf(kind))}
    /\ files' = RemoveFile(files, t.asset.Name)

\* verifyChecksum failed: remove the file, return downloadErrorMsg with its error
FailChecksum(t) ==
    /\ transfers' = Orphaned(Others(t), t.asset.Name)
    /\ msgs' = Send(msgs, [ErrorMsgOf(t, verifyChecksum(files, t.asset.Name, t.asset.Digest))
                              EXCEPT !.detail = verifyChecksumDetail(files, t.asset.Name,
                                                                     t.asset.Digest)])
    /\ ended' = ended \cup {Outcome(t, "failed")}
    /\ files' = RemoveFile(files, t.asset.Name)

RequestOutcomes ==
    {"config error", "Error downloading file", "HTTP error", "Error creating file", "ok"}

\* what the request step returns, given the outcome the environment picked
RequestResult(outcome, cancelled) ==
    IF outcome = "config error" THEN outcome
    ELSE IF cancelled THEN "Download cancelled by user"
    ELSE outcome

\* loadConfig, client.Do, the status check and os.Create
TransferRequest(t, outcome, body) ==
    /\ running
    /\ t \in transfers
    /\ t.pc = "request"
    /\ IF RequestResult(outcome, ctxCancelled) = "ok"
       THEN /\ body \in Bodies(t.asset)
            /\ files' = IF files[t.asset.Name].exists
                        THEN [files EXCEPT ![t.asset.Name].data = <<>>]
                        ELSE CreateFile(files, t.asset.Name)
            /\ transfers' = Others(t) \cup {[t EXCEPT !.pc = "copy", !.body = body]}
            /\ UNCHANGED <<msgs, ended>>
       ELSE /\ body = <<>>
            /\ FailEarly(t, RequestResult(outcome, ctxCancelled))
    /\ UNCHANGED <<sessionVars, downloadQueue, downloadProgress, ctxCancelled,
                   quitPending, running, gen, nCancel, tag, startWithReleases, nextCalls>>

\* one ProgressReader.Read of io.Copy that is not the last one, and the write of its chunk
TransferRead(t, failed) ==
    /\ running
    /\ t \in transfers
    /\ t.pc = "copy"
    /\ t.downloaded < Len(t.body)
    /\ IF ctxCancelled \/ failed
       THEN /\ downloadProgress' = t.downloaded
            /\ FailAndRemove(t, IF ctxCancelled THEN "Download cancelled by user"
                                ELSE "Error writing file")
       ELSE /\ downloadProgress' = t.downloaded + 1
            /\ transfers' = Others(t) \cup {[t EXCEPT !.downloaded = @ + 1]}
            /\ files' = IF t.orphan THEN files
                        ELSE [files EXCEPT ![t.asset.Name].data =
                                  WriteAt(@, t.downloaded, t.body[t.downloaded + 1])]
            /\ UNCHANGED <<msgs, ended>>
    /\ UNCHANGED <<sessionVars, downloadQueue, ctxCancelled, quitPending, running,
                   gen, nCancel, tag, startWithReleases, nextCalls>>

\* the last Read (end of body), then verifyChecksum and the terminal message
TransferFinish(t) ==
    /\ running
    /\ t \in transfers
    /\ t.pc = "copy"
    /\ t.downloaded = Len(t.body)
    /\ downloadProgress' = t.downloaded
    /\ IF ctxCancelled
       THEN FailAndRemove(t, "Download cancelled by user")
       ELSE IF verifyChecksum(files, t.asset.Name, t.asset.Digest) # "ok"
       THEN FailChecksum(t)
       ELSE /\ transfers' = Others(t)
            /\ msgs' = Send(msgs, VerifiedMsgOf(t))
            /\ ended' = ended \cup {Outcome(t, "ok")}
            /\ UNCHANGED files
    /\ UNCHANGED <<sessionVars, downloadQueue, ctxCancelled, quitPending, running,
                   gen, nCancel, tag, startWithReleases, nextCalls>>

----------------------------------------------------------------------------
(* The specification *)

AllBodies == UNION {Bodies(AllAssets[i]) : i \in 1..Len(AllAssets)} \cup {<<>>}

Next ==
    \/ \E mask \in Masks, failed \in BOOLEAN : fetchReleases(mask, failed)
    \/ KeyCancel
    \/ KeyQuit
    \/ \E key \in Keys : handleReleasesInput(key)
    \/ \E key \in Keys : handleAssetsInput(key)
    \/ handleAssetsEnter(MaxLoads)
    \/ KeyIgnored
    \/ \E m \in Pending : UpdateReleasesMsg(m)
    \/ \E m \in Pending : UpdateErrorMsg(m)
    \/ \E m \in Pending : UpdateStartDownloadProgressMsg(m)
    \/ \E m \in Pending : UpdateDownloadProgressMsg(m)
    \/ \E m \in Pending : UpdateDownloadErrorMsg(m)
    \/ \E m \in Pending : UpdateCancelDownloadMsg(m)
    \/ \E m \in Pending : UpdateChecksumVerifiedMsg(m)
    \/ Quit
    \/ \E t \in transfers, o \in RequestOutcomes, body \in AllBodies :
          TransferRequest(t, o, body)
    \/ \E t \in transfers, failed \in BOOLEAN : TransferRead(t, failed)
    \/ \E t \in transfers : TransferFinish(t)

Spec == Init /\ [][Next]_vars

\* The same program with a user who only confirms and cancels (no navigation, no
\* toggling), so the queue always holds the highlighted asset; the queue may be
\* loaded MaxReloads times.
ConfirmKeys == {"enter"}

NextReload ==
    \/ \E mask \in Masks, failed \in BOOLEAN : fetchReleases(mask, failed)
    \/ KeyCancel
    \/ KeyQuit
    \/ \E key \in ConfirmKeys : handleReleasesInput(key)
    \/ handleAssetsEnter(MaxReloads)
    \/ KeyIgnored
    \/ \E m \in Pending : UpdateReleasesMsg(m)
    \/ \E m \in Pending : UpdateErrorMsg(m)
    \/ \E m \in Pending : UpdateStartDownloadProgressMsg(m)
    \/ \E m \in Pending : UpdateDownloadProgressMsg(m)
    \/ \E m \in Pending : UpdateDownloadErrorMsg(m)
    \/ \E m \in Pending : UpdateCancelDownloadMsg(m)
    \/ \E m \in Pending : UpdateChecksumVerifiedMsg(m)
    \/ Quit
    \/ \E t \in transfers, o \in RequestOutcomes, body \in AllBodies :
          TransferRequest(t, o, body)
    \/ \E t \in transfers, failed \in BOOLEAN : TransferRead(t, failed)
    \/ \E t \in transfers : TransferFinish(t)

SpecReload == Init /\ [][NextReload]_vars

----------------------------------------------------------------------------
(* Vocabulary of the properties *)

Terminal(m) == m.type \in {"downloadErrorMsg", "checksumVerifiedMsg"}

\* a message leaves the bag in this step: Update is processing it
Consumed(m) == CopiesIn(m, msgs') < CopiesIn(m, msgs)

\* transfers that have started and whose terminal message Update has not processed
InFlight ==
    {<<t.gen, t.idx>> : t \in transfers} \cup
    {<<m.gen, m.idx>> : m \in {x \in Pending : Terminal(x)}}

\* the transfer started for entry i of the loaded queue ended with result res
EndedWith(i, res) == [gen |-> gen, idx |-> i, res |-> res] \in ended

\* ... and Update has processed that outcome
ProcessedWith(i, res) == EndedWith(i, res) /\ <<gen, i>> \notin InFlight

QueueIndices == 0..(Len(downloadQueue.assets) - 1)

\* a transfer is started in this step
Started(t) == t \in transfers' /\ t \notin transfers /\ t.pc = "request"

CancelledText == "Download cancelled by user"

ErrorsText == "Downloads completed with errors"

----------------------------------------------------------------------------
(* C1..C9: the session *)

\* C1: at Finished the result is the success summary only if every queued asset's
\* transfer succeeded; if one failed it is "Downloads completed with errors".
C1_SuccessOnlyIfAllSucceeded ==
    (state = "StateFinished" /\ nCancel = 0) =>
        /\ downloadSuccess => \A i \in QueueIndices : EndedWith(i, "ok")
        /\ (\E i \in QueueIndices : EndedWith(i, "failed")) =>
               (~downloadSuccess /\ downloadResult = ErrorsText)

\* C2: at Finished an entry is marked completed iff its transfer succeeded, and the
\* cursor equals the queue length.
C2_CompletedIffSucceeded ==
    (state = "StateFinished" /\ nCancel = 0) =>
        /\ \A i \in QueueIndices :
              downloadQueue.progress[i + 1].completed <=> EndedWith(i, "ok")
        /\ downloadQueue.currentIndex = Len(downloadQueue.assets)

\* C3: when the current asset's transfer fails and a later asset exists, the cursor
\* advances by one, the next asset's transfer is started and the session does not
\* leave Downloading; Finished is entered only when no asset remains.
C3_FailureAdvances ==
    [][/\ \A m \in PendingOf("downloadErrorMsg") :
            (Consumed(m) /\ downloadQueue.currentIndex + 1 < Len(downloadQueue.assets)) =>
                /\ downloadQueue'.currentIndex = downloadQueue.currentIndex + 1
                /\ downloadQueue'.assets = downloadQueue.assets
                /\ \E t \in transfers' :
                      /\ Started(t)
                      /\ t.idx = downloadQueue.currentIndex + 1
                      /\ t.asset = downloadQueue.assets[downloadQueue.currentIndex + 2]
                      /\ Msg("startDownloadProgressMsg", t.asset, FALSE, "", t.gen, t.idx)
                            \in BagToSet(msgs')
                /\ state' = state
                /\ state' # "StateFinished"
       /\ (state # "StateFinished" /\ state' = "StateFinished") =>
              downloadQueue'.currentIndex >= Len(downloadQueue'.assets)
      ]_vars

C3_Witness ==
    /\ nCancel = 0
    /\ state = "StateDownloading"
    /\ ProcessedWith(0, "failed")
    /\ \E t \in transfers : t.gen = gen /\ t.idx = 1
    /\ downloadQueue.currentIndex = 1

\* C4: at most one transfer is in flight.
C4_AtMostOneInFlight == Cardinality(InFlight) <= 1

\* C5: the failure result of a transfer cancelled by the user is discarded: processing
\* it does not advance the cursor, start a transfer or change the session state.
C5_CancelledResultDiscarded ==
    [][\A m \in PendingOf("downloadErrorMsg") :
          (Consumed(m) /\ m.kind = CancelledText /\ nCancel > 0) =>
              /\ downloadQueue' = downloadQueue
              /\ transfers' = transfers
              /\ state' = state
      ]_vars

\* C6: a transfer ended by the user's cancellation never makes the final summary
\* "Downloads completed with errors".
C6_CancellationNotAFailure ==
    [][\A m \in PendingOf("downloadErrorMsg") :
          (Consumed(m) /\ m.kind = CancelledText) => downloadResult' # ErrorsText
      ]_vars

\* C7: a transfer started after a cancellation starts with an un-fired signal.
C7_FreshSignal ==
    [][(\E t \in transfers' : Started(t)) => ~ctxCancelled']_vars

\* C8: the queue is not loaded while a transfer is outstanding, and a terminal
\* outcome is applied to the queue it was started for.
C8_NoLoadWhileOutstanding ==
    [][/\ gen' # gen => InFlight = {}
       /\ \A m \in {x \in Pending : Terminal(x)} : Consumed(m) => m.gen = gen
      ]_vars

\* C9: once Finished, no message changes the state, the downloading flag, the
\* result summary or the queue.
C9_FinishedIsTerminal ==
    [][state = "StateFinished" =>
          /\ state' = "StateFinished"
          /\ downloading' = downloading
          /\ downloadResult' = downloadResult
          /\ downloadQueue' = downloadQueue
      ]_vars

----------------------------------------------------------------------------
(* SpecQueue: the DownloadQueue methods called in any order *)

nonQueueVars == <<sessionVars, downloadProgress, ctxCancelled, transfers, msgs,
                  quitPending, running, files, gen, nCancel, ended, tag,
                  startWithReleases>>

\* an asset with a declared size and one whose size is unknown
QueueAssets == {AllAssets[1], AllAssets[3]}

AssetLists == UNION {[1..n -> QueueAssets] : n \in 0..MaxQueueLen}

ByteCounts == 0..MaxBytes

QAdd(asset) ==
    /\ Len(downloadQueue.assets) < MaxQueueLen
    /\ downloadQueue' = Add(downloadQueue, asset)
    /\ UNCHANGED <<nextCalls, nonQueueVars>>

QAddMultiple(assets) ==
    /\ Len(downloadQueue.assets) + Len(assets) <= MaxQueueLen
    /\ downloadQueue' = AddMultiple(downloadQueue, assets)
    /\ UNCHANGED <<nextCalls, nonQueueVars>>

QUpdateProgress(downloaded, total) ==
    /\ downloadQueue' = UpdateProgress(downloadQueue, downloaded, total)
    /\ UNCHANGED <<nextCalls, nonQueueVars>>

QCompleteCurrentDownload(actualSize) ==
    /\ downloadQueue' = CompleteCurrentDownload(downloadQueue, actualSize)
    /\ UNCHANGED <<nextCalls, nonQueueVars>>

QNextDownload ==
    /\ downloadQueue.currentIndex <= MaxQueueLen
    /\ downloadQueue' = NextDownload(downloadQueue)
    /\ nextCalls' = nextCalls + 1
    /\ UNCHANGED nonQueueVars

QReset ==
    /\ downloadQueue' = Reset(downloadQueue)
    /\ nextCalls' = 0
    /\ UNCHANGED nonQueueVars

\* Reset then AddMultiple, as 'enter' does
QLoad(assets) ==
    /\ downloadQueue' = LoadQueue(downloadQueue, assets)
    /\ nextCalls' = 0
    /\ UNCHANGED nonQueueVars

NextQueue ==
    \/ \E asset \in QueueAssets : QAdd(asset)
    \/ \E assets \in AssetLists : QAddMultiple(assets)
    \/ \E downloaded \in ByteCounts, total \in ByteCounts :
          QUpdateProgress(downloaded, total)
    \/ \E actualSize \in ByteCounts : QCompleteCurrentDownload(actualSize)
    \/ QNextDownload
    \/ QReset
    \/ \E assets \in AssetLists : QLoad(assets)

SpecQueue == Init /\ [][NextQueue]_vars

\* C10: a load of n assets leaves n assets, n empty progress entries and cursor 0;
\* the two lists always have the same length; after as many NextDownload calls as
\* there are assets GetCurrent returns none.
C10_QueueShape ==
    /\ [](Len(downloadQueue.assets) = Len(downloadQueue.progress))
    /\ [](nextCalls >= Len(downloadQueue.assets) => GetCurrent(downloadQueue) = NoAsset)
    /\ [][\A assets \in AssetLists :
             QLoad(assets) =>
                 /\ downloadQueue'.assets = assets
                 /\ Len(downloadQueue'.progress) = Len(assets)
                 /\ downloadQueue'.currentIndex = 0
                 /\ \A i \in 1..Len(assets) : downloadQueue'.progress[i] = EmptyProgress
         ]_vars

\* a loaded queue of MaxQueueLen assets, worked on, advanced to its end
C10_Witness ==
    /\ Len(downloadQueue.assets) = MaxQueueLen
    /\ nextCalls = MaxQueueLen
    /\ downloadQueue.progress[1].completed
    /\ GetCurrent(downloadQueue) = NoAsset

----------------------------------------------------------------------------
(* C11..C16: the queue's cursor and progress entries *)

\* a step that loads or clears the queue
QueueLoaded == QReset \/ \E assets \in AssetLists : QLoad(assets)

\* C11: within one loaded queue the cursor starts at 0, only NextDownload changes it,
\* each change is +1, and an index the cursor has passed is never current again (the
\* cursor always equals the number of NextDownload calls since the load).
C11_CursorForwardOnly ==
    /\ [](downloadQueue.currentIndex = nextCalls)
    /\ [][/\ QueueLoaded => downloadQueue'.currentIndex = 0
          /\ (~QueueLoaded /\ downloadQueue'.currentIndex # downloadQueue.currentIndex) =>
                /\ QNextDownload
                /\ downloadQueue'.currentIndex = downloadQueue.currentIndex + 1
         ]_vars

\* the cursor has passed the first of two entries, which was worked on before
C11_Witness ==
    /\ Len(downloadQueue.assets) = 2
    /\ downloadQueue.currentIndex = 1
    /\ nextCalls = 1
    /\ downloadQueue.progress[1].downloadedBytes > 0
    /\ ~downloadQueue.progress[1].completed

\* C12: 0 <= cursor <= length always; a NextDownload call on an exhausted queue
\* returns false, leaves GetCurrent none and leaves the queue (cursor included)
\* unchanged.
C12_AdvanceIdempotentPastEnd ==
    /\ [](/\ 0 <= downloadQueue.currentIndex
          /\ downloadQueue.currentIndex <= Len(downloadQueue.assets))
    /\ [][(QNextDownload /\ downloadQueue.currentIndex >= Len(downloadQueue.assets)) =>
             /\ ~NextDownloadResult(downloadQueue')
             /\ GetCurrent(downloadQueue') = NoAsset
             /\ downloadQueue' = downloadQueue
         ]_vars

\* C13: every progress entry marked completed has downloaded = total and total > 0.
C13_CompletedMeansFull ==
    \A i \in 1..Len(downloadQueue.progress) :
        downloadQueue.progress[i].completed =>
            /\ downloadQueue.progress[i].downloadedBytes = downloadQueue.progress[i].totalBytes
            /\ downloadQueue.progress[i].totalBytes > 0

----------------------------------------------------------------------------
(* SpecProgress: UpdateProgress called with non-decreasing downloaded values *)

\* UpdateProgress on the current entry with a count not below the entry's last one
QUpdateProgressMonotone(downloaded, total) ==
    /\ HasCurrent(downloadQueue)
    /\ downloaded >= downloadQueue.progress[downloadQueue.currentIndex + 1].downloadedBytes
    /\ QUpdateProgress(downloaded, total)

NextProgress ==
    \/ \E asset \in QueueAssets : QAdd(asset)
    \/ \E downloaded \in ByteCounts, total \in ByteCounts :
          QUpdateProgressMonotone(downloaded, total)
    \/ QNextDownload

SpecProgress == Init /\ [][NextProgress]_vars

\* C14: under UpdateProgress calls with non-decreasing downloaded values an entry
\* that has been completed is never not completed afterwards.
C14_CompletedStaysCompleted ==
    [][\A i \in 1..Len(downloadQueue.progress) :
          downloadQueue.progress[i].completed => downloadQueue'.progress[i].completed
      ]_vars

----------------------------------------------------------------------------
(* C15..C20: the session's polls and the transfer's outcome *)

\* C15: the byte counts the poller writes into the current entry are non-decreasing,
\* and a poll made while the current entry's transfer has read nothing writes 0.
C15_PolledCountsNonDecreasing ==
    [][\A m \in PendingOf("tick") :
          (Consumed(m) /\ m.live /\ HasCurrent(downloadQueue)) =>
              /\ downloadQueue'.progress[downloadQueue.currentIndex + 1].downloadedBytes
                    >= downloadQueue.progress[downloadQueue.currentIndex + 1].downloadedBytes
              /\ \A t \in transfers :
                    (t.gen = gen /\ t.idx = downloadQueue.currentIndex /\ t.pc = "request") =>
                        downloadQueue'.progress[downloadQueue.currentIndex + 1].downloadedBytes = 0
      ]_vars

\* C16: CompleteCurrentDownload(actualSize) with the cursor in range sets the current
\* entry to {f, f, true}, f being actualSize if non-zero, else the asset's declared
\* size if non-zero, else the entry's last downloaded count, and changes nothing else;
\* with the cursor out of range it changes nothing.
C16_CompleteCurrentFallback ==
    [][\A actualSize \in ByteCounts :
          QCompleteCurrentDownload(actualSize) =>
              IF downloadQueue.currentIndex >= 0
                 /\ downloadQueue.currentIndex < Len(downloadQueue.progress)
              THEN LET i == downloadQueue.currentIndex + 1
                       f == IF actualSize # 0 THEN actualSize
                            ELSE IF downloadQueue.assets[i].Size # 0
                                 THEN downloadQueue.assets[i].Size
                                 ELSE downloadQueue.progress[i].downloadedBytes
                   IN /\ downloadQueue'.progress[i] =
                            [downloadedBytes |-> f, totalBytes |-> f, completed |-> TRUE]
                      /\ \A j \in 1..Len(downloadQueue.progress) :
                            j # i => downloadQueue'.progress[j] = downloadQueue.progress[j]
                      /\ Len(downloadQueue'.progress) = Len(downloadQueue.progress)
                      /\ downloadQueue'.assets = downloadQueue.assets
                      /\ downloadQueue'.currentIndex = downloadQueue.currentIndex
              ELSE downloadQueue' = downloadQueue
      ]_vars

\* an entry finalized with its asset's declared size and one finalized with its last
\* downloaded count
C16_Witness ==
    /\ Len(downloadQueue.assets) = 2
    /\ downloadQueue.assets[1].Size = 2
    /\ downloadQueue.progress[1] =
          [downloadedBytes |-> 2, totalBytes |-> 2, completed |-> TRUE]
    /\ downloadQueue.assets[2].Size = 0
    /\ downloadQueue.progress[2] =
          [downloadedBytes |-> 1, totalBytes |-> 1, completed |-> TRUE]

----------------------------------------------------------------------------
(* SpecCancel: the same program listing a release of two large assets *)

\* fetchReleases for a repository whose matching assets are those of LargeRelease
fetchLargeRelease ==
    /\ running
    /\ FetchCmd \in Pending
    /\ msgs' = Send(Recv(msgs, FetchCmd),
                    [FetchCmd EXCEPT !.type = "releasesMsg",
                                     !.assets = LargeRelease.Assets,
                                     !.releases = <<LargeRelease>>])
    /\ UNCHANGED <<sessionVars, downloadQueue, downloadProgress, ctxCancelled,
                   transfers, quitPending, running, files, gen, nCancel, ended,
                   tag, startWithReleases, nextCalls>>

NextCancel ==
    \/ fetchLargeRelease
    \/ KeyCancel
    \/ KeyQuit
    \/ \E key \in Keys : handleReleasesInput(key)
    \/ \E key \in Keys : handleAssetsInput(key)
    \/ handleAssetsEnter(MaxLoads)
    \/ KeyIgnored
    \/ \E m \in Pending : UpdateReleasesMsg(m)
    \/ \E m \in Pending : UpdateStartDownloadProgressMsg(m)
    \/ \E m \in Pending : UpdateDownloadProgressMsg(m)
    \/ \E m \in Pending : UpdateDownloadErrorMsg(m)
    \/ \E m \in Pending : UpdateCancelDownloadMsg(m)
    \/ \E m \in Pending : UpdateChecksumVerifiedMsg(m)
    \/ Quit
    \/ \E t \in transfers, o \in RequestOutcomes, body \in AllBodies :
          TransferRequest(t, o, body)
    \/ \E t \in transfers, failed \in BOOLEAN : TransferRead(t, failed)
    \/ \E t \in transfers : TransferFinish(t)

SpecCancel == Init /\ [][NextCancel]_vars

\* the transfer t ends in this step
Reported(t) ==
    /\ t \in transfers
    /\ \E res \in {"ok", "failed", "cancelled"} :
          Outcome(t, res) \in ended' /\ Outcome(t, res) \notin ended

\* C17: when a transfer that has written at least one chunk and not yet the whole
\* body ends after the cancellation signal fired, the file asset.Name does not exist,
\* the outcome is "Download cancelled by user" and the asset's entry is not marked
\* completed (the claim's "nor at any later point" is not needed to refute it).
C17_CancelledMidTransfer ==
    [][\A t \in transfers :
          (/\ Reported(t)
           /\ ctxCancelled
           /\ t.pc = "copy"
           /\ t.downloaded >= 1
           /\ t.downloaded < Len(t.body)) =>
              /\ ~files'[t.asset.Name].exists
              /\ ErrorMsgOf(t, CancelledText) \in BagToSet(msgs')
              /\ Outcome(t, "cancelled") \in ended'
              /\ t.gen = gen => ~downloadQueue'.progress[t.idx + 1].completed
      ]_vars

----------------------------------------------------------------------------
(* SpecDigest: the same program listing one asset whose digest is any of DigestInputs *)

DigestInputs ==
    { NoDigest,
      <<"s", "h", "a", "2", "5", "6", ":", "0", "a", "a">>,
      <<"s", "h", "a", "2", "5", "6", ":", "0", "a", "b">>,
      <<"m", "d", "5", ":", "0", "a", "a">>,
      <<"0", "a", "a">>,
      <<"s", "h", "a", "2", "5", "6", ":", "0", "a", ":", "a">> }

DigestAsset(digest) == [AllAssets[1] EXCEPT !.Digest = digest]

\* fetchReleases for a repository whose only matching asset carries the digest
fetchDigestRelease(digest) ==
    /\ running
    /\ FetchCmd \in Pending
    /\ msgs' = Send(Recv(msgs, FetchCmd),
                    [FetchCmd EXCEPT !.type = "releasesMsg",
                                     !.assets = <<DigestAsset(digest)>>,
                                     !.releases = <<[TagName |-> "v3",
                                                     Assets |-> <<DigestAsset(digest)>>]>>])
    /\ UNCHANGED <<sessionVars, downloadQueue, downloadProgress, ctxCancelled,
                   transfers, quitPending, running, files, gen, nCancel, ended,
                   tag, startWithReleases, nextCalls>>

NextDigest ==
    \/ \E digest \in DigestInputs : fetchDigestRelease(digest)
    \/ KeyCancel
    \/ KeyQuit
    \/ \E key \in Keys : handleReleasesInput(key)
    \/ \E key \in Keys : handleAssetsInput(key)
    \/ handleAssetsEnter(MaxLoads)
    \/ KeyIgnored
    \/ \E m \in Pending : UpdateReleasesMsg(m)
    \/ \E m \in Pending : UpdateStartDownloadProgressMsg(m)
    \/ \E m \in Pending : UpdateDownloadProgressMsg(m)
    \/ \E m \in Pending : UpdateDownloadErrorMsg(m)
    \/ \E m \in Pending : UpdateCancelDownloadMsg(m)
    \/ \E m \in Pending : UpdateChecksumVerifiedMsg(m)
    \/ Quit
    \/ \E t \in transfers, o \in RequestOutcomes, body \in AllBodies :
          TransferRequest(t, o, body)
    \/ \E t \in transfers, failed \in BOOLEAN : TransferRead(t, failed)
    \/ \E t \in transfers : TransferFinish(t)

SpecDigest == Init /\ [][NextDigest]_vars

\* the transfer t ends in this step after io.Copy returned without error
FinishStep(t) ==
    /\ Reported(t)
    /\ t.pc = "copy"
    /\ t.downloaded = Len(t.body)
    /\ ~ctxCancelled

\* the error message of transfer t with this kind is pending after the step
ErrorSent(t, kind) ==
    \E m \in BagToSet(msgs') :
        m.type = "downloadErrorMsg" /\ m.gen = t.gen /\ m.idx = t.idx /\ m.kind = kind

Colons(d) == {i \in 1..Len(d) : d[i] = ":"}

\* "sha256:<hex>"
IsSha256Digest(d) ==
    /\ Len(d) > 7
    /\ SubSeq(d, 1, 7) = <<"s", "h", "a", "2", "5", "6", ":">>
    /\ Colons(d) = {7}

C19_DigestFormat ==
    [][\A t \in transfers :
          (FinishStep(t) /\ t.asset.Digest # NoDigest) =>
              (ErrorSent(t, "invalid digest format")
                  <=> Cardinality(Colons(t.asset.Digest)) # 1)
      ]_vars

\* C20: with an absent digest a fully written body is reported as success and the
\* transfer leaves the file as it is, whatever its bytes are.
C20_AbsentDigestSkips ==
    [][\A t \in transfers :
          (FinishStep(t) /\ t.asset.Digest = NoDigest) =>
              /\ VerifiedMsgOf(t) \in BagToSet(msgs')
              /\ Outcome(t, "ok") \in ended'
              /\ files' = files
      ]_vars

\* a success was reported for an asset without digest
C20_Witness ==
    \E m \in PendingOf("checksumVerifiedMsg") :
        /\ m.asset.Digest = NoDigest
        /\ m.success
        /\ files[m.asset.Name].exists
        /\ files[m.asset.Name].data = <<1, 2>>

----------------------------------------------------------------------------
(* SpecHttp: the same program, the server answering each request with a status code,
   in a working directory that may already hold a file named like the asset *)

StatusOK == 200

StatusCodes == {200, 204, 206, 404, 500}

\* a file left in the working directory by an earlier run
OldFile == [exists |-> TRUE, data |-> <<2>>]

InitHttp ==
    /\ state = "StateReleases"
    /\ loading = TRUE
    /\ quitting = FALSE
    /\ errorMsg = ""
    /\ listView = EmptyListView
    /\ downloadQueue = EmptyQueue
    /\ downloading = FALSE
    /\ downloadFinished = FALSE
    /\ downloadSuccess = FALSE
    /\ downloadResult = ""
    /\ downloadProgress = 0
    /\ ctxCancelled = FALSE
    /\ transfers = {}
    /\ msgs = SetToBag({FetchCmd})
    /\ quitPending = FALSE
    /\ running = TRUE
    /\ files \in {[n \in Names |-> NoFile],
                  [n \in Names |-> IF n = AllAssets[1].Name THEN OldFile ELSE NoFile]}
    /\ gen = 0
    /\ nCancel = 0
    /\ ended = {}
    /\ nextCalls = 0
    /\ tag = ""
    /\ startWithReleases = FALSE

\* the request steps that end before a response is looked at, and os.Create failing
RequestFailures == {"config error", "Error downloading file", "Error creating file"}

\* return downloadErrorMsg("HTTP error: <status>")
FailHttp(t, status) ==
    /\ transfers' = Others(t)
    /\ msgs' = Send(msgs, [ErrorMsgOf(t, "HTTP error") EXCEPT !.detail = <<status>>])
    /\ ended' = ended \cup {Outcome(t, "failed")}
    /\ UNCHANGED files

\* client.Do returned a response with this status: the status check and os.Create
TransferResponse(t, status, body) ==
    /\ running
    /\ t \in transfers
    /\ t.pc = "request"
    /\ ~ctxCancelled
    /\ IF status # StatusOK
       THEN /\ body = <<>>
            /\ FailHttp(t, status)
       ELSE /\ body \in Bodies(t.asset)
            /\ files' = IF files[t.asset.Name].exists
                        THEN [files EXCEPT ![t.asset.Name].data = <<>>]
                        ELSE CreateFile(files, t.asset.Name)
            /\ transfers' = Others(t) \cup {[t EXCEPT !.pc = "copy", !.body = body]}
            /\ UNCHANGED <<msgs, ended>>
    /\ UNCHANGED <<sessionVars, downloadQueue, downloadProgress, ctxCancelled,
                   quitPending, running, gen, nCancel, tag, startWithReleases, nextCalls>>

NextHttp ==
    \/ \E digest \in {NoDigest} : fetchDigestRelease(digest)
    \/ KeyCancel
    \/ KeyQuit
    \/ \E key \in Keys : handleReleasesInput(key)
    \/ \E key \in Keys : handleAssetsInput(key)
    \/ handleAssetsEnter(MaxLoads)
    \/ KeyIgnored
    \/ \E m \in Pending : UpdateReleasesMsg(m)
    \/ \E m \in Pending : UpdateStartDownloadProgressMsg(m)
    \/ \E m \in Pending : UpdateDownloadProgressMsg(m)
    \/ \E m \in Pending : UpdateDownloadErrorMsg(m)
    \/ \E m \in Pending : UpdateCancelDownloadMsg(m)
    \/ \E m \in Pending : UpdateChecksumVerifiedMsg(m)
    \/ Quit
    \/ \E t \in transfers, o \in RequestFailures : TransferRequest(t, o, <<>>)
    \/ \E t \in transfers, status \in StatusCodes, body \in AllBodies :
          TransferResponse(t, status, body)
    \/ \E t \in transfers, failed \in BOOLEAN : TransferRead(t, failed)
    \/ \E t \in transfers : TransferFinish(t)

SpecHttp == InitHttp /\ [][NextHttp]_vars

\* C21: on a status outside 200..299 the transfer fails with an HTTP error carrying the
\* status code and the working directory is left as it was; on every status in
\* 200..299 the transfer goes on and the file asset.Name is created.
C21_HttpStatus ==
    [][\A t \in transfers, status \in StatusCodes, body \in AllBodies :
          TransferResponse(t, status, body) =>
              IF status \notin 200..299
              THEN /\ \E m \in BagToSet(msgs') :
                         /\ m.type = "downloadErrorMsg"
                         /\ m.gen = t.gen /\ m.idx = t.idx
                         /\ m.kind = "HTTP error"
                         /\ m.detail = <<status>>
                   /\ Outcome(t, "failed") \in ended'
                   /\ files' = files
              ELSE /\ files'[t.asset.Name] = [exists |-> TRUE, data |-> <<>>]
                   /\ \E u \in transfers' :
                         u.gen = t.gen /\ u.idx = t.idx /\ u.pc = "copy"
                   /\ ended' = ended
      ]_vars

----------------------------------------------------------------------------
(* SpecSelect: the same program listing two releases, one of them without assets *)

EmptyRelease == [TagName |-> "v0", Assets |-> <<>>]

\* fetchReleases without a mask for a repository with the releases Release1, EmptyRelease
fetchTwoReleases ==
    /\ running
    /\ FetchCmd \in Pending
    /\ msgs' = Send(Recv(msgs, FetchCmd),
                    [FetchCmd EXCEPT !.type = "releasesMsg",
                                     !.releases = <<Release1, EmptyRelease>>])
    /\ UNCHANGED <<sessionVars, downloadQueue, downloadProgress, ctxCancelled,
                   transfers, quitPending, running, files, gen, nCancel, ended,
                   tag, startWithReleases, nextCalls>>

NextSelect ==
    \/ fetchTwoReleases
    \/ KeyCancel
    \/ KeyQuit
    \/ \E key \in Keys : handleReleasesInput(key)
    \/ \E key \in Keys : handleAssetsInput(key)
    \/ handleAssetsEnter(MaxLoads)
    \/ KeyIgnored
    \/ \E m \in Pending : UpdateReleasesMsg(m)
    \/ \E m \in Pending : UpdateStartDownloadProgressMsg(m)
    \/ \E m \in Pending : UpdateDownloadProgressMsg(m)
    \/ \E m \in Pending : UpdateDownloadErrorMsg(m)
    \/ \E m \in Pending : UpdateCancelDownloadMsg(m)
    \/ \E m \in Pending : UpdateChecksumVerifiedMsg(m)
    \/ Quit
    \/ \E t \in transfers, o \in RequestOutcomes, body \in AllBodies :
          TransferRequest(t, o, body)
    \/ \E t \in transfers, failed \in BOOLEAN : TransferRead(t, failed)
    \/ \E t \in transfers : TransferFinish(t)

SpecSelect == Init /\ [][NextSelect]_vars

\* the positions (1-based) of the toggled items of the list
Toggled == {i \in 1..Len(listView.items) : listView.selected[i]}

\* the k-th toggled position in list order
NthToggled(k) == CHOOSE i \in Toggled : Cardinality({j \in Toggled : j < i}) = k - 1

\* the assets a confirm has to put in the queue
Confirmed ==
    IF Toggled # {}
    THEN [k \in 1..Cardinality(Toggled) |-> listView.items[NthToggled(k)]]
    ELSE <<listView.items[listView.cursor + 1]>>

----------------------------------------------------------------------------
(* SpecMask: the listing, for every mask of the configuration file and every list of
   asset names the server returns *)

MaskChars == {"a", "b", "*"}

Strings(n) == UNION {[1..k -> MaskChars] : k \in 0..n}

MaskInputs == Strings(MaxMaskLen)

NameInputs == Strings(MaxNameLen) \ {<<>>}

MaskAsset(name) == [Name |-> name, Size |-> 1, Digest |-> NoDigest]

\* the server lists a release of two assets
NameLists == {<<n1, n2>> : n1 \in NameInputs, n2 \in NameInputs}

MaskRelease(names) ==
    [TagName |-> "v1", Assets |-> [i \in 1..Len(names) |-> MaskAsset(names[i])]]

\* the listing command, with the mask it will find in the configuration file and the
\* releases the server will list
MaskedFetchCmd(assetMaskValue, names) ==
    [FetchCmd EXCEPT !.mask = assetMaskValue, !.releases = <<MaskRelease(names)>>]

InitMask ==
    /\ state = "StateReleases"
    /\ loading = TRUE
    /\ quitting = FALSE
    /\ errorMsg = ""
    /\ listView = EmptyListView
    /\ downloadQueue = EmptyQueue
    /\ downloading = FALSE
    /\ downloadFinished = FALSE
    /\ downloadSuccess = FALSE
    /\ downloadResult = ""
    /\ downloadProgress = 0
    /\ ctxCancelled = FALSE
    /\ transfers = {}
    /\ msgs \in {SetToBag({MaskedFetchCmd(assetMaskValue, names)}) :
                    assetMaskValue \in MaskInputs, names \in NameLists}
    /\ quitPending = FALSE
    /\ running = TRUE
    /\ files = [n \in Names |-> NoFile]
    /\ gen = 0
    /\ nCancel = 0
    /\ ended = {}
    /\ nextCalls = 0
    /\ tag = ""
    /\ startWithReleases = FALSE

MaskedFetchResult(assetMaskValue, releases) ==
    IF assetMaskValue = <<>> \/ startWithReleases
    THEN [FetchCmd EXCEPT !.type = "releasesMsg", !.releases = releases]
    ELSE IF Len(FilterAssets(AllReleaseAssets(releases), assetMaskValue)) = 0
    THEN [FetchCmd EXCEPT !.type = "errorMsg", !.kind = "artifacts not found"]
    ELSE [FetchCmd EXCEPT !.type = "releasesMsg",
                          !.assets = FilterAssets(AllReleaseAssets(releases), assetMaskValue),
                          !.releases = releases]

fetchMaskedReleases(m) ==
    /\ running
    /\ m \in PendingOf("fetchReleases")
    /\ msgs' = Send(Recv(msgs, m), MaskedFetchResult(m.mask, m.releases))
    /\ UNCHANGED <<sessionVars, downloadQueue, downloadProgress, ctxCancelled,
                   transfers, quitPending, running, files, gen, nCancel, ended,
                   tag, startWithReleases, nextCalls>>

NextMask ==
    \/ \E m \in Pending : fetchMaskedReleases(m)
    \/ \E m \in Pending : UpdateReleasesMsg(m)
    \/ \E m \in Pending : UpdateErrorMsg(m)
    \/ \E key \in Keys : handleReleasesInput(key)
    \/ \E key \in Keys : handleAssetsInput(key)

SpecMask == InitMask /\ [][NextMask]_vars

Stars(assetMask) == {i \in 1..Len(assetMask) : assetMask[i] = "*"}

\* the listing command m ends in this step having let through exactly these assets
Listed(m, expected) ==
    IF expected = <<>>
    THEN \E r \in BagToSet(msgs') : r.type = "errorMsg" /\ r.kind = "artifacts not found"
    ELSE \E r \in BagToSet(msgs') : r.type = "releasesMsg" /\ r.assets = expected

\* C23: with a mask holding exactly one '*', an asset matches iff its name starts with
\* the part of the mask before the '*' and ends with the part after it.
C23_OneStarMask ==
    [][\A m \in PendingOf("fetchReleases") :
          (Consumed(m) /\ Cardinality(Stars(m.mask)) = 1) =>
              LET k      == CHOOSE i \in Stars(m.mask) : TRUE
                  prefix == SubSeq(m.mask, 1, k - 1)
                  suffix == SubSeq(m.mask, k + 1, Len(m.mask))
                  Keep(a) == HasPrefix(a.Name, prefix) /\ HasSuffix(a.Name, suffix)
              IN  Listed(m, SelectSeq(AllReleaseAssets(m.releases), Keep))
      ]_vars

\* "ab" and "bb" were both let through: only a mask *b (or *) does that
C23_Witness ==
    \E r \in PendingOf("releasesMsg") :
        /\ r.releases = <<MaskRelease(<<<<"a", "b">>, <<"b", "b">>>>)>>
        /\ r.assets = r.releases[1].Assets

\* C24: with a non-empty mask holding no '*' or more than one, an asset matches iff
\* its name starts with the whole mask, the '*' characters taken literally.
C24_LiteralPrefixMask ==
    [][\A m \in PendingOf("fetchReleases") :
          (Consumed(m) /\ m.mask # <<>> /\ Cardinality(Stars(m.mask)) # 1) =>
              LET Keep(a) == /\ Len(a.Name) >= Len(m.mask)
                             /\ \A i \in 1..Len(m.mask) : a.Name[i] = m.mask[i]
              IN  Listed(m, SelectSeq(AllReleaseAssets(m.releases), Keep))
      ]_vars

\* of "**" and "*b" only "**" was let through: only the mask ** does that
C24_Witness ==
    \E r \in PendingOf("releasesMsg") :
        /\ r.releases = <<MaskRelease(<<<<"*", "*">>, <<"*", "b">>>>)>>
        /\ r.assets = <<MaskAsset(<<"*", "*">>)>>

----------------------------------------------------------------------------
(* C26..C30: keys during a transfer, the exit code, and the queue's progress *)

\* C26: while a transfer is in flight a 'q' or 'ctrl+c' key press is never handled as
\* a plain quit, also before the startDownloadProgressMsg of that transfer has been
\* processed.
C26_QuitKeyCancelsInFlight ==
    [][KeyQuit => transfers = {}]_vars

NotExited == -1

\* the exit code of main once p.Run has returned without error: main returns, or
\* calls os.Exit(0) after a cancellation
ExitCode == IF running THEN NotExited ELSE 0

\* C27: the exit code is 0 when the session ends in success or by the user's
\* cancellation, and non-zero when the initial listing failed for want of a
\* configuration.
C27_ExitCode ==
    ~running =>
        /\ (downloadSuccess \/ nCancel > 0) => ExitCode = 0
        /\ errorMsg = "listing failed" => ExitCode # 0

\* the terminal outcomes of transfers started for the loaded queue that Update has
\* processed
ProcessedOutcomes ==
    {o \in ended : o.gen = gen /\ <<o.gen, o.idx>> \notin InFlight}

\* C28: the cursor is incremented only in the step that processes a transfer's
\* terminal outcome, and the number of NextDownload calls on the loaded queue is at
\* most the number of processed terminal outcomes of transfers started for it.
C28_NoSpeculativeAdvance ==
    /\ [](nextCalls <= Cardinality(ProcessedOutcomes))
    /\ [][(gen' = gen /\ downloadQueue'.currentIndex # downloadQueue.currentIndex) =>
             /\ downloadQueue'.currentIndex = downloadQueue.currentIndex + 1
             /\ \E m \in {x \in Pending : Terminal(x)} : Consumed(m)
         ]_vars

\* the start messages sent in this step
StartsSent ==
    {m \in BagToSet(msgs') :
        m.type = "startDownloadProgressMsg" /\ CopiesIn(m, msgs') > CopiesIn(m, msgs)}

\* C29: within one loaded queue a transfer is started at most once for each queue
\* position: when one is started for a position, none was started for it before
\* (none is running and none has ended), and only one is started.
C29_NoRetry ==
    [][\A m \in StartsSent :
          /\ CopiesIn(m, msgs') = CopiesIn(m, msgs) + 1
          /\ \A t \in transfers : ~(t.gen = m.gen /\ t.idx = m.idx)
          /\ \A o \in ended : ~(o.gen = m.gen /\ o.idx = m.idx)
          /\ \A x \in Pending : ~(x.type = m.type /\ x.gen = m.gen /\ x.idx = m.idx)
      ]_vars

\* both positions of a queue of two were served once, the first transfer failed and
\* the second succeeded
C29_Witness ==
    /\ state = "StateFinished"
    /\ Len(downloadQueue.assets) = 2
    /\ nCancel = 0
    /\ ProcessedWith(0, "failed")
    /\ ProcessedWith(1, "ok")

----------------------------------------------------------------------------
(* SpecLive: the same program with a user who presses no key once the download has
   been started, under fair scheduling of the message loop and of the transfers *)

NextLive ==
    \/ \E mask \in Masks, failed \in BOOLEAN : fetchReleases(mask, failed)
    \/ gen = 0 /\ \E key \in Keys : handleReleasesInput(key)
    \/ gen = 0 /\ \E key \in Keys : handleAssetsInput(key)
    \/ gen = 0 /\ handleAssetsEnter(MaxLoads)
    \/ \E m \in Pending : UpdateReleasesMsg(m)
    \/ \E m \in Pending : UpdateErrorMsg(m)
    \/ \E m \in Pending : UpdateStartDownloadProgressMsg(m)
    \/ \E m \in Pending : UpdateDownloadProgressMsg(m)
    \/ \E m \in Pending : UpdateDownloadErrorMsg(m)
    \/ \E m \in Pending : UpdateChecksumVerifiedMsg(m)
    \/ Quit
    \/ \E t \in transfers, o \in RequestOutcomes, body \in AllBodies :
          TransferRequest(t, o, body)
    \/ \E t \in transfers, failed \in BOOLEAN : TransferRead(t, failed)
    \/ \E t \in transfers : TransferFinish(t)

\* the event loop handles every delivered message and every transfer runs on
Fairness ==
    /\ WF_vars(\E m \in Pending : UpdateStartDownloadProgressMsg(m))
    /\ WF_vars(\E m \in Pending : UpdateDownloadErrorMsg(m))
    /\ WF_vars(\E m \in Pending : UpdateChecksumVerifiedMsg(m))
    /\ WF_vars(\E t \in transfers, o \in RequestOutcomes, body \in AllBodies :
                  TransferRequest(t, o, body))
    /\ WF_vars(\E t \in transfers, failed \in BOOLEAN : TransferRead(t, failed))
    /\ WF_vars(\E t \in transfers : TransferFinish(t))

SpecLive == Init /\ [][NextLive]_vars /\ Fairness

\* the session is Finished with the cursor at the end of the queue and one processed
\* terminal outcome for each asset
FinishedAll ==
    /\ state = "StateFinished"
    /\ downloadQueue.currentIndex = Len(downloadQueue.assets)
    /\ Cardinality(ProcessedOutcomes) = Len(downloadQueue.assets)

\* C30: once the download of a queue of n >= 1 assets has been started, and the user
\* presses no key, a session that has not finished yet eventually is Finished with the
\* cursor equal to n, after exactly n terminal outcomes.
C30_EventuallyFinished ==
    (gen = 1 /\ Len(downloadQueue.assets) >= 1 /\ ~downloadFinished) ~> FinishedAll

\* a queue of MaxAssets assets was downloaded to the end with success
C30_Witness ==
    /\ FinishedAll
    /\ Len(downloadQueue.assets) = MaxAssets
    /\ downloadSuccess
    /\ \A i \in QueueIndices : EndedWith(i, "ok")

----------------------------------------------------------------------------
(* SpecEntry: the listing for each way of launching the program: without URL, with
   the URL of a release tag, with the URL of a repository *)

LaunchModes ==
    { [tag |-> "",   startWithReleases |-> FALSE],
      [tag |-> "v1", startWithReleases |-> FALSE],
      [tag |-> "",   startWithReleases |-> TRUE] }

\* what the server lists: with a tag the one release of that tag, else all releases
ListedReleases == {<<Release1>>, <<EmptyRelease>>, <<Release1, EmptyRelease>>}

InitEntry ==
    /\ state = "StateReleases"
    /\ loading = TRUE
    /\ quitting = FALSE
    /\ errorMsg = ""
    /\ listView = EmptyListView
    /\ downloadQueue = EmptyQueue
    /\ downloading = FALSE
    /\ downloadFinished = FALSE
    /\ downloadSuccess = FALSE
    /\ downloadResult = ""
    /\ downloadProgress = 0
    /\ ctxCancelled = FALSE
    /\ transfers = {}
    /\ msgs = SetToBag({FetchCmd})
    /\ quitPending = FALSE
    /\ running = TRUE
    /\ files = [n \in Names |-> NoFile]
    /\ gen = 0
    /\ nCancel = 0
    /\ ended = {}
    /\ nextCalls = 0
    /\ \E mode \in LaunchModes :
          tag = mode.tag /\ startWithReleases = mode.startWithReleases

EntryFetchResult(assetMaskValue, releases) ==
    IF tag # ""
    THEN [FetchCmd EXCEPT !.type = "releasesMsg", !.assets = Head(releases).Assets,
                          !.releases = <<Head(releases)>>]
    ELSE MaskedFetchResult(assetMaskValue, releases)

fetchEntryReleases(assetMaskValue, releases) ==
    /\ running
    /\ FetchCmd \in Pending
    /\ msgs' = Send(Recv(msgs, FetchCmd), EntryFetchResult(assetMaskValue, releases))
    /\ UNCHANGED <<sessionVars, downloadQueue, downloadProgress, ctxCancelled,
                   transfers, quitPending, running, files, gen, nCancel, ended,
                   tag, startWithReleases, nextCalls>>

NextEntry ==
    \/ \E mask \in Masks, releases \in ListedReleases : fetchEntryReleases(mask, releases)
    \/ \E m \in Pending : UpdateReleasesMsg(m)
    \/ \E m \in Pending : UpdateErrorMsg(m)
    \/ \E key \in Keys : handleReleasesInput(key)
    \/ \E key \in Keys : handleAssetsInput(key)
    \/ KeyQuit
    \/ Quit

SpecEntry == InitEntry /\ [][NextEntry]_vars

\* C31: on the listing result the session enters ChoosingAssets with the message's
\* assets exactly when a tag was requested, or the mask filter produced at least one
\* asset and the run was not started from a repository URL; otherwise it enters
\* ChoosingRelease with the listed releases.
C31_EntryState ==
    [][\A m \in PendingOf("releasesMsg") :
          Consumed(m) =>
              IF tag # "" \/ (Len(m.assets) >= 1 /\ ~startWithReleases)
              THEN /\ state' = "StateAssets"
                   /\ listView'.kind = "assets"
                   /\ listView'.items = m.assets
              ELSE /\ state' = "StateReleases"
                   /\ listView'.kind = "releases"
                   /\ listView'.items = m.releases
      ]_vars

\* a tag was requested whose release has no assets: ChoosingAssets with an empty list
C31_Witness ==
    /\ tag # ""
    /\ ~loading
    /\ state = "StateAssets"
    /\ listView.kind = "assets"
    /\ Len(listView.items) = 0

----------------------------------------------------------------------------
(* C32..C39: the screen, the queue's frame and the transfer's outcome *)

\* model.View: the screen shown and the message line it carries
View ==
    IF state \in {"StateReleases", "StateAssets"}
    THEN [screen |-> "list", text |-> ""]
    ELSE IF state = "StateDownloading"
    THEN [screen |-> "progress", text |-> ""]
    ELSE IF state = "StateFinished"
    THEN [screen |-> "results", text |-> downloadResult]
    ELSE IF quitting THEN [screen |-> "message", text |-> "Goodbye!"]
    ELSE IF loading THEN [screen |-> "message", text |-> "Searching for available artifacts..."]
    ELSE IF errorMsg # "" THEN [screen |-> "message", text |-> errorMsg]
    ELSE [screen |-> "message", text |-> "No artifacts found"]

\* the errors of the initial listing
ListingErrors == {"listing failed", "artifacts not found"}

\* C32: after the errorMsg of a failed configuration or listing is processed, nothing
\* loads the queue or starts a transfer, and the screen shows the error text.
C32_FatalListingError ==
    errorMsg \in ListingErrors =>
        /\ gen = 0
        /\ transfers = {}
        /\ IsEmpty(downloadQueue)
        /\ ~quitting => View.text = errorMsg

\* C33: UpdateProgress(downloaded, total) with the cursor in range overwrites the
\* entry at the cursor with {downloaded, total, downloaded >= total and total > 0} and
\* leaves the assets, the cursor and every other entry unchanged; with the cursor out
\* of range it changes nothing.
C33_UpdateProgressFrame ==
    [][\A downloaded \in ByteCounts, total \in ByteCounts :
          QUpdateProgress(downloaded, total) =>
              IF downloadQueue.currentIndex >= 0
                 /\ downloadQueue.currentIndex < Len(downloadQueue.progress)
              THEN LET i == downloadQueue.currentIndex + 1
                   IN /\ downloadQueue'.progress[i] =
                            [downloadedBytes |-> downloaded, totalBytes |-> total,
                             completed |-> (downloaded >= total /\ total > 0)]
                      /\ Len(downloadQueue'.progress) = Len(downloadQueue.progress)
                      /\ \A j \in 1..Len(downloadQueue.progress) :
                            j # i => downloadQueue'.progress[j] = downloadQueue.progress[j]
                      /\ downloadQueue'.assets = downloadQueue.assets
                      /\ downloadQueue'.currentIndex = downloadQueue.currentIndex
              ELSE downloadQueue' = downloadQueue
      ]_vars

\* the second entry of a queue of two was updated, the first one is untouched
C33_Witness ==
    /\ Len(downloadQueue.assets) = 2
    /\ downloadQueue.currentIndex = 1
    /\ downloadQueue.progress[1] = EmptyProgress
    /\ downloadQueue.progress[2] =
          [downloadedBytes |-> 0, totalBytes |-> 1, completed |-> FALSE]

\* C34: space in the asset list keeps the session in ChoosingAssets, flips only the
\* selection flag of the highlighted item and leaves the highlight, the list, the
\* other flags and the queue unchanged; toggling twice restores the selection.
C34_ToggleFrame ==
    /\ [](state = "StateAssets" =>
             ToggleSelection(ToggleSelection(listView)) = listView)
    /\ [][handleAssetsInput(" ") =>
             /\ state' = "StateAssets"
             /\ listView'.cursor = listView.cursor
             /\ listView'.items = listView.items
             /\ Len(listView'.selected) = Len(listView.selected)
             /\ \A i \in 1..Len(listView.selected) :
                   listView'.selected[i] =
                       IF i = listView.cursor + 1 THEN ~listView.selected[i]
                       ELSE listView.selected[i]
             /\ downloadQueue' = downloadQueue
         ]_vars

\* only the second, highlighted asset is selected
C34_Witness ==
    /\ state = "StateAssets"
    /\ gen = 0
    /\ listView.cursor = 1
    /\ listView.selected = <<FALSE, TRUE>>

\* C35: a poll writes into the entry at the cursor the declared size of that entry's
\* own asset, never the size of the asset the poll was created for when that is
\* another one.
C35_PollUsesOwnSize ==
    [][\A m \in PendingOf("tick") :
          (Consumed(m) /\ m.live /\ HasCurrent(downloadQueue)) =>
              /\ m.asset = GetCurrent(downloadQueue)
              /\ downloadQueue'.progress[downloadQueue.currentIndex + 1].totalBytes
                    = GetCurrent(downloadQueue).Size
      ]_vars

\* the pending ticks that will deliver an updateDownloadProgressMsg
LiveTicks == {m \in PendingOf("tick") : m.live}

\* C36: at most one poll chain is armed at any time, and a poll processed while no
\* transfer is in flight does not re-arm itself.
C36_OnePollChain ==
    /\ [](/\ Cardinality(LiveTicks) <= 1
          /\ \A m \in LiveTicks : CopiesIn(m, msgs) = 1)
    /\ [][\A m \in LiveTicks :
             (Consumed(m) /\ InFlight = {}) =>
                 \A x \in BagToSet(msgs') :
                     (x.type = "tick" /\ x.live) => CopiesIn(x, msgs') <= CopiesIn(x, msgs) - 1
         ]_vars

\* C37: every progress entry after the cursor is the empty entry, and an entry before
\* the cursor does not change as long as the queue is not reloaded.
C37_OnlyCurrentEntryMutated ==
    /\ [](\A i \in 1..Len(downloadQueue.progress) :
             i - 1 > downloadQueue.currentIndex =>
                 downloadQueue.progress[i] = EmptyProgress)
    /\ [][gen' = gen =>
             /\ Len(downloadQueue'.progress) = Len(downloadQueue.progress)
             /\ \A i \in 1..Len(downloadQueue.progress) :
                   i - 1 < downloadQueue.currentIndex =>
                       downloadQueue'.progress[i] = downloadQueue.progress[i]
         ]_vars

\* the first entry was completed and left behind, the second one is being written
C37_Witness ==
    /\ Len(downloadQueue.assets) = 2
    /\ downloadQueue.currentIndex = 1
    /\ downloadQueue.progress[1].completed
    /\ downloadQueue.progress[2].totalBytes > 0
    /\ \E t \in transfers : t.idx = 1 /\ t.pc = "copy"

\* the terminal messages of transfer t that the step adds to the pending messages
SentBy(t) ==
    {x \in BagToSet(msgs') :
        /\ Terminal(x)
        /\ x.gen = t.gen /\ x.idx = t.idx
        /\ CopiesIn(x, msgs') > CopiesIn(x, msgs)}

\* the step ends transfer t (its command returns)
Returns(t) == ~\E u \in transfers' : u.gen = t.gen /\ u.idx = t.idx

\* C38: the step in which a transfer's command returns adds exactly one terminal message
\* of that transfer, a downloadErrorMsg or a checksumVerifiedMsg with success true; a
\* transfer that goes on adds none, and no transfer has two outcomes.
C38_OneTerminalMessage ==
    /\ [](\A o1, o2 \in ended : (o1.gen = o2.gen /\ o1.idx = o2.idx) => o1 = o2)
    /\ [][\A t \in transfers :
             IF Returns(t)
             THEN /\ Cardinality(SentBy(t)) = 1
                  /\ \A x \in SentBy(t) :
                        /\ CopiesIn(x, msgs') = CopiesIn(x, msgs) + 1
                        /\ x.type \in {"downloadErrorMsg", "checksumVerifiedMsg"}
                        /\ x.type = "checksumVerifiedMsg" => x.success
                        /\ (x.type = "checksumVerifiedMsg") =
                               (Outcome(t, "ok") \in ended')
             ELSE SentBy(t) = {}
         ]_vars

\* one transfer returned its success message and another one an error message
C38_Witness ==
    /\ transfers = {}
    /\ \E o \in ended : o.gen = gen /\ o.res = "ok"
    /\ \E o \in ended : o.gen = gen /\ o.res = "failed"

----------------------------------------------------------------------------
(* SpecCleanup: the same program with a user who only confirms and cancels, for a
   repository whose only asset carries no digest, a matching one or a malformed one,
   in a working directory where os.Remove may fail *)

CleanupDigests ==
    { NoDigest,
      <<"s", "h", "a", "2", "5", "6", ":", "0", "a", "a">>,
      <<"0", "a", "a">> }

\* os.Remove(asset.Name) fails, the error is dropped: return downloadErrorMsg(kind)
FailAndKeep(t, kind) ==
    /\ transfers' = Others(t)
    /\ msgs' = Send(msgs, ErrorMsgOf(t, kind))
    /\ ended' = ended \cup {Outcome(t, ResultOf(kind))}
    /\ UNCHANGED files

\* verifyChecksum failed and os.Remove fails: return downloadErrorMsg with its error
FailChecksumKept(t) ==
    /\ transfers' = Others(t)
    /\ msgs' = Send(msgs, [ErrorMsgOf(t, verifyChecksum(files, t.asset.Name, t.asset.Digest))
                              EXCEPT !.detail = verifyChecksumDetail(files, t.asset.Name,
                                                                     t.asset.Digest)])
    /\ ended' = ended \cup {Outcome(t, "failed")}
    /\ UNCHANGED files

\* io.Copy returns an error and the removal of the partial file fails
TransferReadKept(t, failed) ==
    /\ running
    /\ t \in transfers
    /\ t.pc = "copy"
    /\ t.downloaded < Len(t.body)
    /\ ctxCancelled \/ failed
    /\ downloadProgress' = t.downloaded
    /\ FailAndKeep(t, IF ctxCancelled THEN "Download cancelled by user"
                      ELSE "Error writing file")
    /\ UNCHANGED <<sessionVars, downloadQueue, ctxCancelled, quitPending, running,
                   gen, nCancel, tag, startWithReleases, nextCalls>>

\* the last Read fails on the cancelled context or verifyChecksum fails, and the
\* removal of the file fails
TransferFinishKept(t) ==
    /\ running
    /\ t \in transfers
    /\ t.pc = "copy"
    /\ t.downloaded = Len(t.body)
    /\ downloadProgress' = t.downloaded
    /\ IF ctxCancelled
       THEN FailAndKeep(t, "Download cancelled by user")
       ELSE /\ verifyChecksum(files, t.asset.Name, t.asset.Digest) # "ok"
            /\ FailChecksumKept(t)
    /\ UNCHANGED <<sessionVars, downloadQueue, ctxCancelled, quitPending, running,
                   gen, nCancel, tag, startWithReleases, nextCalls>>

NextCleanup ==
    \/ \E digest \in CleanupDigests : fetchDigestRelease(digest)
    \/ KeyCancel
    \/ KeyQuit
    \/ \E key \in ConfirmKeys : handleReleasesInput(key)
    \/ handleAssetsEnter(MaxReloads)
    \/ KeyIgnored
    \/ \E m \in Pending : UpdateReleasesMsg(m)
    \/ \E m \in Pending : UpdateStartDownloadProgressMsg(m)
    \/ \E m \in Pending : UpdateDownloadProgressMsg(m)
    \/ \E m \in Pending : UpdateDownloadErrorMsg(m)
    \/ \E m \in Pending : UpdateCancelDownloadMsg(m)
    \/ \E m \in Pending : UpdateChecksumVerifiedMsg(m)
    \/ Quit
    \/ \E t \in transfers, o \in RequestOutcomes, body \in AllBodies :
          TransferRequest(t, o, body)
    \/ \E t \in transfers, failed \in BOOLEAN : TransferRead(t, failed)
    \/ \E t \in transfers : TransferFinish(t)
    \/ \E t \in transfers, failed \in BOOLEAN : TransferReadKept(t, failed)
    \/ \E t \in transfers : TransferFinishKept(t)

SpecCleanup == Init /\ [][NextCleanup]_vars

\* what the transfer t, past os.Create, is about to report when it returns
Verdict(t) ==
    IF ctxCancelled THEN "Download cancelled by user"
    ELSE IF t.downloaded < Len(t.body) THEN "Error writing file"
    ELSE verifyChecksum(files, t.asset.Name, t.asset.Digest)

\* the step is one in which the removal of the file of transfer t fails
RemovalFails(t) ==
    \/ \E failed \in BOOLEAN : TransferReadKept(t, failed)
    \/ TransferFinishKept(t)

\* a transfer that reports a failure after os.Create leaves no file named asset.Name
\* unless the removal fails
C39_FailureRemovesFile ==
    [][\A t \in transfers :
          (Returns(t) /\ t.pc = "copy" /\ Verdict(t) # "ok" /\ ~RemovalFails(t)) =>
              ~files'[t.asset.Name].exists
      ]_vars

\* what a transfer past os.Create reports is the verdict of the copy and of the
\* verification, whether or not the removal fails
C39_OutcomeKept ==
    [][\A t \in transfers :
          (Returns(t) /\ t.pc = "copy") =>
              \A x \in SentBy(t) :
                  IF Verdict(t) = "ok"
                  THEN x.type = "checksumVerifiedMsg" /\ x.success
                  ELSE x.type = "downloadErrorMsg" /\ x.kind = Verdict(t)
      ]_vars

\* a transfer that reports success leaves the file asset.Name holding its whole body
C39_SuccessKeepsWholeFile ==
    [][\A t \in transfers :
          (Returns(t) /\ t.pc = "copy" /\ Verdict(t) = "ok") =>
              /\ files'[t.asset.Name].exists
              /\ files'[t.asset.Name].data = t.body
      ]_vars

\* C39: a transfer that reports a failure after its output file was created leaves no
\* file named asset.Name if the removal succeeds, a transfer that reports success
\* leaves the file holding the whole copied body, and a failing removal does not
\* change what is reported.
C39_NoPartialFile ==
    /\ C39_FailureRemovesFile
    /\ C39_SuccessKeepsWholeFile
    /\ C39_OutcomeKept

====
